---- MODULE Spec2Model ----
(***************************************************************************)
(* Order placement of the tailoring shop backend.                          *)
(*                                                                         *)
(* Two servers live in the tree: the enhanced server (src/frontend/js/     *)
(* api.js, from line 136 on) and the legacy server (src/unnamed/part_001). *)
(* Spec / FairSpec model POST /api/orders of the enhanced server, one      *)
(* step per await of the handler; LegacySpec models POST /api/orders of    *)
(* the legacy server.                                                      *)
(***************************************************************************)
EXTENDS Integers, Sequences, FiniteSets, TLC

\* ------------------------------------------------------------------ bounds
NumReqs   == 2    \* request handlers in flight at once
NumUsers  == 1    \* registered users
MaxItems  == 2    \* line items of one request body
MaxQty    == 2    \* the quantity of a line that has one
MaxOrders == 1    \* orders persisted before the model stops accepting requests
MaxTime   == 2    \* milliseconds Date.now() advances through

\* ------------------------------------------------------- program constants
DeliveryCharge == 3      \* const deliveryCharge = 3
PadWidth       == 4      \* padStart(4, '0')
SeedPrice1     == 350    \* seedProducts, first product
SeedPrice2     == 250    \* seedProducts, second product
RaisedPrice    == 400    \* another catalog price (seedProducts, fourth product)

Reqs         == 1..NumReqs
Users        == 1..NumUsers
ProductIds   == {1, 2}
\* the quantities a client sends: none (which the schema rejects) or several
Quantities   == {0, MaxQty}
\* what a client may put into totalAmount
ClientAmounts == {1, 2}
\* the price a client puts on a line: no catalog price
ClientPrices == {1}

\* ------------------------------------------------------------ data model
\* productSchema: the fields the order workflow reads
Product(price, active) == [exists |-> TRUE, price |-> price, isActive |-> active]
\* Product.findById resolves to null
NoProduct == [exists |-> FALSE, price |-> 0, isActive |-> FALSE]

\* cartSchema: a cart document, or no document for the user
Cart(lines) == [exists |-> TRUE, products |-> lines]
NoCart == [exists |-> FALSE, products |-> <<>>]

\* one element of req.body.products
Item(p, q, c) == [productId |-> p, quantity |-> q, price |-> c]

RECURSIVE SeqsUpTo(_, _)
SeqsUpTo(S, n) ==
  IF n = 0 THEN {<<>>}
  ELSE LET shorter == SeqsUpTo(S, n - 1)
       IN  shorter \cup {Append(s, x) : s \in {t \in shorter : Len(t) = n - 1}, x \in S}

\* the request bodies a client sends
Bodies ==
  { [products |-> items, totalAmount |-> total] :
      items \in SeqsUpTo({Item(p, q, c) : p \in ProductIds, q \in Quantities, c \in ClientPrices},
                         MaxItems),
      total \in ClientAmounts }

\* ------------------------------------------------------- order number
DigitChars == <<"0", "1", "2", "3", "4", "5", "6", "7", "8", "9">>

\* String(n) of a non-negative integer, as a sequence of characters
RECURSIVE ToChars(_)
ToChars(n) ==
  IF n < 10 THEN <<DigitChars[n + 1]>>
  ELSE Append(ToChars(n \div 10), DigitChars[(n % 10) + 1])

\* s.padStart(width, '0')
RECURSIVE PadStart(_, _)
PadStart(s, width) ==
  IF Len(s) >= width THEN s ELSE PadStart(<<"0">> \o s, width)

\* `ORD${Date.now()}${String(count + 1).padStart(4, '0')}`
OrderNumber(ts, count) ==
  <<"O", "R", "D">> \o ToChars(ts) \o PadStart(ToChars(count + 1), PadWidth)

NoNumber == <<>>


\* ------------------------------------------------- the handler's pure steps
\* the check without its isActive half
NotFoundIgnoresActive(product) == ~product.exists

\* if (!product || !product.isActive)
NotFound(product) == ~product.exists \/ ~product.isActive

\* the line is costed with the price the client sent
ItemTotalClientPrice(product, item) == item.price * item.quantity

\* const itemTotal = product.price * item.quantity
ItemTotal(product, item) == product.price * item.quantity

\* { price: product.price, ...item }: the client's price overwrites the catalog's
OrderLineClientWins(item, product) == item

\* orderProducts.push({ ...item, price: product.price })
OrderLine(item, product) == [item EXCEPT !.price = product.price]

\* the loop is left after its first pass
LoopDoneEarly(items) == TRUE

\* for (const item of products): no line is left
LoopDone(items) == items = <<>>

\* const deliveryCharge = 3; calculatedTotal += deliveryCharge
WithDelivery(calculatedTotal) == calculatedTotal + DeliveryCharge

\* new Order({ userId, products: orderProducts, ..., totalAmount: calculatedTotal, deliveryCharge })
NewOrder(userId, orderProducts, calculatedTotal) ==
  [ userId         |-> userId,
    products       |-> orderProducts,
    totalAmount    |-> calculatedTotal,
    deliveryCharge |-> DeliveryCharge ]

\* the document as the collection holds it, with its _id and its orderNumber
Stored(order, id, number) ==
  [ id |-> id, orderNumber |-> number, userId |-> order.userId,
    products |-> order.products, totalAmount |-> order.totalAmount,
    deliveryCharge |-> order.deliveryCharge ]

\* orderSchema without min on products.quantity
ValidOrderNoMin(order) ==
  \A i \in 1..Len(order.products) : order.products[i].quantity \in Int

\* orderSchema validators run by save(): products.quantity has min: 1
ValidOrder(order) ==
  \A i \in 1..Len(order.products) : order.products[i].quantity >= 1

\* the insert written as a replacement of the newest document
InsertOneReplacing(coll, doc) ==
  IF coll = <<>> THEN <<doc>> ELSE [coll EXCEPT ![Len(coll)] = doc]

\* order.save() of a new document: an insert, the stored documents stay
InsertOne(coll, doc) == Append(coll, doc)

\* orderNumber: { unique: true }: the insert is rejected with a duplicate key
DuplicateKey(stored, number) ==
  \E i \in 1..Len(stored) : stored[i].orderNumber = number

\* Cart.deleteOne({ userId }) in place of the update
ClearedCartDeleted(cart) == NoCart

\* Cart.findOneAndUpdate({ userId }, { products: [] }) without upsert
ClearedCart(cart) == IF cart.exists THEN Cart(<<>>) ELSE cart

\* --------------------------------------------------------------- accounts
\* bodies of the account routes: strings are sequences of characters
MaxAccounts == 2
MinPassword == 6

InputUsernames == { <<"A", "n">>, <<"a", "n">>, <<"b", "o">> }
InputEmails    == { <<"A", "@", "x">>, <<"a", "@", "x">>, <<"b", "@", "x">> }
Secret         == <<"s", "e", "c", "r", "e", "t">>
Hunter         == <<"h", "u", "n", "t", "e", "r">>
Short          == <<"s", "h", "o", "r", "t">>

\* String.prototype.toLowerCase on the letters the inputs use
LowerChar(c) == IF c = "A" THEN "a" ELSE IF c = "B" THEN "b" ELSE c

ToLowerCase(s) == [i \in 1..Len(s) |-> LowerChar(s[i])]

\* body('email').isEmail().normalizeEmail(): lower-cases the address
NormalizeEmail(e) == ToLowerCase(e)

\* bcrypt.hash and bcrypt.compare
Hash(password) == <<"$2b$">> \o password

Compare(password, hashed) == hashed = Hash(password)

\* new User({ username, email, password, ... }) after the setters of userSchema
\* (lowercase: true) and its defaults
NewUser(username, email, hashed) ==
  [ username |-> ToLowerCase(username), email |-> ToLowerCase(email), password |-> hashed,
    isActive |-> TRUE, lastLogin |-> 0 ]

\* new User({...}) of the legacy userSchema: no setters
LegacyUser(username, email, hashed) ==
  [ username |-> username, email |-> email, password |-> hashed,
    isActive |-> TRUE, lastLogin |-> 0 ]

\* findOne: of the positions that match, the first in natural order, 0 for null
FindOne(matching) ==
  IF matching = {} THEN 0 ELSE CHOOSE i \in matching : \A j \in matching : i <= j

\* User.findOne({ $or: [{ username }, { email }] })
FindByUsernameOrEmail(coll, username, email) ==
  FindOne({ i \in 1..Len(coll) : coll[i].username = username \/ coll[i].email = email })

\* User.findOne({ email })
FindByEmail(coll, email) == FindOne({ i \in 1..Len(coll) : coll[i].email = email })

\* the unique indexes of userSchema on username and on email reject the insert
UserKeyTaken(coll, doc) ==
  \E i \in 1..Len(coll) : coll[i].username = doc.username \/ coll[i].email = doc.email

\* the account the order workflow's user u was registered with
SeedUser(u) ==
  NewUser(<<"u">> \o ToChars(u), <<"u">> \o ToChars(u) \o <<"@", "x">>, Hash(Secret))

\* ------------------------------------------------------------------ state
VARIABLES
  now,      \* Date.now()
  catalog,  \* Product collection: product id -> product or NoProduct
  carts,    \* Cart collection: user id -> cart or NoCart
  orders,   \* Order collection, in insertion order
  h,        \* the request handlers: position, locals, effects and response
  users,    \* User collection, in insertion order
  resets,   \* PasswordReset collection, in insertion order
  issued,   \* the tokens jwt.sign has produced so far
  cartMeta  \* per user id: __v of the cart findOne returns, number of cart documents

vars == <<now, catalog, carts, orders, h, users, resets, issued, cartMeta>>

\* the collections and tokens POST /api/orders never writes
accounts == <<users, resets, issued, cartMeta>>

\* a handler slot with no request. seen is history, not a local of the handler:
\* what each findById of the loop returned, with the quantity the line asked for
Idle ==
  [ pc |-> "idle", user |-> 0, items |-> <<>>, totalAmount |-> 0, calculatedTotal |-> 0,
    orderProducts |-> <<>>, seen |-> <<>>, orderNumber |-> NoNumber, orderId |-> 0,
    cleared |-> FALSE, mail |-> "none", status |-> 0, rejected |-> FALSE ]

\* the handler has answered with `status`: its locals are gone, what it did stays
Respond(rec, status) ==
  [ Idle EXCEPT !.pc = "done", !.orderId = rec.orderId, !.cleared = rec.cleared,
                !.mail = rec.mail, !.status = status ]

Init ==
  /\ now = 1
  /\ catalog \in { [p \in ProductIds |-> IF p = 1 THEN Product(SeedPrice1, TRUE) ELSE second] :
                     second \in {NoProduct, Product(SeedPrice2, TRUE)} }
  /\ carts \in [Users -> {NoCart, Cart(<<[productId |-> 1, quantity |-> 1]>>)}]
  /\ orders = <<>>
  /\ h = [r \in Reqs |-> Idle]
  /\ users = [u \in Users |-> SeedUser(u)]
  /\ resets = <<>>
  /\ issued = {}
  /\ cartMeta = [u \in Users |-> [v |-> 0, docs |-> IF carts[u].exists THEN 1 ELSE 0]]

\* ------------------------------------------------------------ environment
\* the clock advances
Tick ==
  /\ now < MaxTime
  /\ now' = now + 1
  /\ UNCHANGED <<catalog, carts, orders, h>>
  /\ UNCHANGED accounts

\* the catalog is edited outside the API: a product's price or isActive changes
CatalogUpdate ==
  /\ \E p \in ProductIds :
       /\ catalog[p].exists
       /\ \/ \E price \in {SeedPrice1, RaisedPrice} :
               /\ p = 1
               /\ price # catalog[p].price
               /\ catalog' = [catalog EXCEPT ![p].price = price]
          \/ /\ p # 1
             /\ catalog' = [catalog EXCEPT ![p].isActive = ~catalog[p].isActive]
  /\ UNCHANGED <<now, carts, orders, h>>
  /\ UNCHANGED accounts

\* ------------------------------------------- POST /api/orders (enhanced)
\* the code between the end of the loop and the first await inside save():
\* delivery charge, new Order, validation
AfterLoop(rec) ==
  LET total == WithDelivery(rec.calculatedTotal)
  IN  IF ValidOrder(NewOrder(rec.user, rec.orderProducts, total))
      THEN [rec EXCEPT !.pc = "count", !.calculatedTotal = total]
      ELSE [Respond(rec, 500) EXCEPT !.rejected = TRUE]

\* a request arrives with a verified token of user u; the handler never reads the
\* totalAmount of the body
StartOrder(r) ==
  /\ h[r].pc \in {"idle", "done"}
  /\ Len(orders) < MaxOrders
  /\ \E u \in Users, body \in Bodies :
       LET rec == [Idle EXCEPT !.pc = "lookup", !.user = u, !.items = body.products]
       IN  h' = [h EXCEPT ![r] = IF LoopDone(rec.items) THEN AfterLoop(rec) ELSE rec]
  /\ UNCHANGED <<now, catalog, carts, orders>>
  /\ UNCHANGED accounts

\* const product = await Product.findById(item.productId), and the loop body;
\* items holds the lines the loop has not reached yet
Lookup(r) ==
  /\ h[r].pc = "lookup"
  /\ LET rec     == h[r]
         item    == Head(rec.items)
         product == catalog[item.productId]
         next    == [rec EXCEPT !.calculatedTotal = @ + ItemTotal(product, item),
                                !.orderProducts = Append(@, OrderLine(item, product)),
                                !.seen = Append(@, [productId |-> item.productId,
                                                    price |-> product.price,
                                                    quantity |-> item.quantity,
                                                    sent |-> item.price]),
                                !.items = Tail(@)]
     IN  h' = [h EXCEPT ![r] =
                 IF NotFound(product) THEN Respond(rec, 400)
                 ELSE IF LoopDone(next.items) THEN AfterLoop(next)
                 ELSE next]
  /\ UNCHANGED <<now, catalog, carts, orders>>
  /\ UNCHANGED accounts

\* pre('save'): const count = await countDocuments(); this.orderNumber = ...
Count(r) ==
  /\ h[r].pc = "count"
  /\ h' = [h EXCEPT ![r].pc = "insert",
                    ![r].orderNumber = OrderNumber(now, Len(orders))]
  /\ UNCHANGED <<now, catalog, carts, orders>>
  /\ UNCHANGED accounts

\* await order.save(): the insert reaches the database
Insert(r) ==
  /\ h[r].pc = "insert"
  /\ IF DuplicateKey(orders, h[r].orderNumber)
     THEN /\ h' = [h EXCEPT ![r] = Respond(h[r], 500)]
          /\ UNCHANGED orders
     ELSE LET id    == Len(orders) + 1
              order == NewOrder(h[r].user, h[r].orderProducts, h[r].calculatedTotal)
          IN  /\ orders' = InsertOne(orders, Stored(order, id, h[r].orderNumber))
              /\ h' = [h EXCEPT ![r].pc = "clear", ![r].orderId = id]
  /\ UNCHANGED <<now, catalog, carts>>
  /\ UNCHANGED accounts

\* await Cart.findOneAndUpdate({ userId }, { products: [], ... })
ClearCart(r) ==
  /\ h[r].pc = "clear"
  /\ carts' = [carts EXCEPT ![h[r].user] = ClearedCart(@)]
  /\ h' = [h EXCEPT ![r].pc = "mail", ![r].cleared = TRUE]
  /\ UNCHANGED <<now, catalog, orders>>
  /\ UNCHANGED accounts

\* a database call of the handler rejects: the outer catch answers 500
DbFail(r) ==
  /\ h[r].pc \in {"lookup", "count", "insert", "clear"}
  /\ h' = [h EXCEPT ![r] = Respond(h[r], 500)]
  /\ UNCHANGED <<now, catalog, carts, orders>>
  /\ UNCHANGED accounts

\* the mail without its own try/catch: a rejection reaches the outer catch
AfterMailUncaught(rec, outcome) ==
  Respond([rec EXCEPT !.mail = outcome], IF outcome = "failed" THEN 500 ELSE 201)

\* what the handler does when the try block around the mail is left
AfterMail(rec, outcome) == Respond([rec EXCEPT !.mail = outcome], 201)

\* await transporter.sendMail(...) resolves
MailSent(r) ==
  /\ h[r].pc = "mail"
  /\ h' = [h EXCEPT ![r] = AfterMail(h[r], "sent")]
  /\ UNCHANGED <<now, catalog, carts, orders>>
  /\ UNCHANGED accounts

\* User.findById or sendMail rejects: the inner catch logs it
MailFailed(r) ==
  /\ h[r].pc = "mail"
  /\ h' = [h EXCEPT ![r] = AfterMail(h[r], "failed")]
  /\ UNCHANGED <<now, catalog, carts, orders>>
  /\ UNCHANGED accounts

\* a database call of the handler resolves or rejects
DbStep(r) ==
  \/ Lookup(r)
  \/ Count(r)
  \/ Insert(r)
  \/ ClearCart(r)
  \/ DbFail(r)

Next ==
  \/ Tick
  \/ CatalogUpdate
  \/ \E r \in Reqs : StartOrder(r)
  \/ \E r \in Reqs : DbStep(r)
  \/ \E r \in Reqs : MailSent(r)
  \/ \E r \in Reqs : MailFailed(r)

Spec == Init /\ [][Next]_vars

\* the order route with quantities of either sign in the body
SignedQuantities == {-1, 0, 1}

SignedBodies ==
  { [products |-> items, totalAmount |-> 1] :
      items \in SeqsUpTo({Item(p, q, 1) : p \in ProductIds, q \in SignedQuantities},
                         MaxItems) }

\* a request arrives with a verified token of user u
SignedStart(r) ==
  /\ h[r].pc \in {"idle", "done"}
  /\ Len(orders) < MaxOrders
  /\ \E u \in Users, body \in SignedBodies :
       LET rec == [Idle EXCEPT !.pc = "lookup", !.user = u, !.items = body.products]
       IN  h' = [h EXCEPT ![r] = IF LoopDone(rec.items) THEN AfterLoop(rec) ELSE rec]
  /\ UNCHANGED <<now, catalog, carts, orders>>
  /\ UNCHANGED accounts

QuantityNext ==
  \/ Tick
  \/ \E r \in Reqs : SignedStart(r)
  \/ \E r \in Reqs : DbStep(r)
  \/ \E r \in Reqs : MailSent(r)
  \/ \E r \in Reqs : MailFailed(r)

QuantitySpec == Init /\ [][QuantityNext]_vars

\* every database call comes back; nothing makes the mail transport answer
FairSpec == Spec /\ \A r \in Reqs : WF_vars(DbStep(r))

\* --------------------------------------------- POST /api/orders (legacy)
\* legacy orderSchema.products has no price: the field of the body is dropped
LegacyLine(item) == [productId |-> item.productId, quantity |-> item.quantity]

\* new Order({ userId, products, deliveryAddress, paymentMethod, totalAmount })
LegacyOrder(userId, products, totalAmount) ==
  [ userId      |-> userId,
    products    |-> [i \in 1..Len(products) |-> LegacyLine(products[i])],
    totalAmount |-> totalAmount ]

\* a request arrives at the legacy server with a verified token of user u
LegacyStart(r) ==
  /\ h[r].pc \in {"idle", "done"}
  /\ Len(orders) < MaxOrders
  /\ \E u \in Users, body \in Bodies :
       h' = [h EXCEPT ![r] = [Idle EXCEPT !.pc = "save", !.user = u, !.items = body.products,
                                         !.totalAmount = body.totalAmount]]
  /\ UNCHANGED <<now, catalog, carts, orders>>
  /\ UNCHANGED accounts

\* await order.save()
LegacySave(r) ==
  /\ h[r].pc = "save"
  /\ LET id    == Len(orders) + 1
         order == LegacyOrder(h[r].user, h[r].items, h[r].totalAmount)
     IN  /\ orders' = Append(orders, [ id |-> id, userId |-> order.userId,
                                       products |-> order.products,
                                       totalAmount |-> order.totalAmount ])
         /\ h' = [h EXCEPT ![r].pc = "clear", ![r].orderId = id]
  /\ UNCHANGED <<now, catalog, carts>>
  /\ UNCHANGED accounts

\* await Cart.findOneAndUpdate({ userId }, { products: [] }); res.status(201)
LegacyClearCart(r) ==
  /\ h[r].pc = "clear"
  /\ carts' = [carts EXCEPT ![h[r].user] = ClearedCart(@)]
  /\ h' = [h EXCEPT ![r] = Respond([h[r] EXCEPT !.cleared = TRUE], 201)]
  /\ UNCHANGED <<now, catalog, orders>>
  /\ UNCHANGED accounts

\* save() or findOneAndUpdate rejects: the catch answers 500
LegacyDbFail(r) ==
  /\ h[r].pc \in {"save", "clear"}
  /\ h' = [h EXCEPT ![r] = Respond(h[r], 500)]
  /\ UNCHANGED <<now, catalog, carts, orders>>
  /\ UNCHANGED accounts

LegacyNext ==
  \/ \E r \in Reqs : LegacyStart(r)
  \/ \E r \in Reqs : LegacySave(r)
  \/ \E r \in Reqs : LegacyClearCart(r)
  \/ \E r \in Reqs : LegacyDbFail(r)

LegacySpec == Init /\ [][LegacyNext]_vars

\* ------------------------------------------------- /api/auth (enhanced)
\* a handler slot of the account routes with no request
AuthIdle ==
  [ pc |-> "idle", route |-> "none", username |-> <<>>, email |-> <<>>, password |-> <<>>,
    user |-> 0, token |-> <<>>, cause |-> "none", status |-> 0, error |-> "none",
    changed |-> FALSE, held |-> FALSE, updates |-> [top |-> {}, set |-> {}] ]

\* res.status(status).json({ error }) or res.json({ message }): the locals are gone;
\* cause is history, the branch that answered; token is what the request carried
\* (reset-password) or what the response carries (login); changed: the request
\* has replaced a password hash; held: its ticket was stored when it did
AuthRespond(rec, status, error, cause) ==
  [ AuthIdle EXCEPT !.pc = "done", !.route = rec.route, !.token = rec.token,
                    !.status = status, !.error = error, !.cause = cause,
                    !.changed = rec.changed, !.held = rec.held ]

\* jwt.sign({ userId, username }, JWT_SECRET, { expiresIn: '24h' })
SessionToken(userId, username, iat) ==
  [ kind |-> "session", userId |-> userId, username |-> username, iat |-> iat,
    sig |-> "server" ]

\* an empty database, no request
AccountInit ==
  /\ now = 1
  /\ catalog = [p \in ProductIds |-> NoProduct]
  /\ carts = [u \in Users |-> NoCart]
  /\ orders = <<>>
  /\ h = [r \in Reqs |-> AuthIdle]
  /\ users = <<>>
  /\ resets = <<>>
  /\ issued = {}
  /\ cartMeta = [u \in Users |-> [v |-> 0, docs |-> 0]]

\* an account is deactivated outside the API
Deactivate ==
  /\ \E i \in 1..Len(users) :
       /\ users[i].isActive
       /\ users' = [users EXCEPT ![i].isActive = FALSE]
  /\ UNCHANGED <<now, catalog, carts, orders, h, resets, issued, cartMeta>>

\* POST /api/auth/register arrives; validateRegistration has normalised the email
RegisterStart(r) ==
  /\ h[r].pc \in {"idle", "done"}
  /\ Len(users) < MaxAccounts
  /\ \E username \in InputUsernames, email \in InputEmails :
       h' = [h EXCEPT ![r] = [AuthIdle EXCEPT !.pc = "find", !.route = "register",
                                             !.username = username,
                                             !.email = NormalizeEmail(email),
                                             !.password = Secret]]
  /\ UNCHANGED <<now, catalog, carts, orders, users, resets, issued, cartMeta>>

\* if (existingUser) return res.status(400).json({ error: ... })
ExistingIsRejected(rec) ==
  AuthRespond(rec, 400, "Username or email already exists", "exists")

\* const existingUser = await User.findOne({ $or: [...] }) on the lower-cased
\* username and email; bcrypt.hash follows and reads no shared state
RegisterFind(r) ==
  /\ h[r].pc = "find" /\ h[r].route = "register"
  /\ LET existingUser == FindByUsernameOrEmail(users, ToLowerCase(h[r].username),
                                               ToLowerCase(h[r].email))
     IN  h' = [h EXCEPT ![r] = IF existingUser # 0 THEN ExistingIsRejected(h[r])
                               ELSE [h[r] EXCEPT !.pc = "save"]]
  /\ UNCHANGED <<now, catalog, carts, orders, users, resets, issued, cartMeta>>

\* await user.save(): the insert reaches the database; a duplicate key is thrown
\* into the outer catch
RegisterSave(r) ==
  /\ h[r].pc = "save" /\ h[r].route = "register"
  /\ LET user == NewUser(ToLowerCase(h[r].username), ToLowerCase(h[r].email),
                         Hash(h[r].password))
     IN  IF UserKeyTaken(users, user)
         THEN /\ h' = [h EXCEPT ![r] = AuthRespond(h[r], 500, "Internal server error",
                                                   "duplicate-key")]
              /\ UNCHANGED users
         ELSE /\ users' = Append(users, user)
              /\ h' = [h EXCEPT ![r].pc = "mail", ![r].user = Len(users) + 1]
  /\ UNCHANGED <<now, catalog, carts, orders, resets, issued, cartMeta>>

\* the welcome mail is sent or fails inside its own try/catch; res.status(201)
RegisterMail(r) ==
  /\ h[r].pc = "mail" /\ h[r].route = "register"
  /\ h' = [h EXCEPT ![r] = AuthRespond(h[r], 201, "User registered successfully", "created")]
  /\ UNCHANGED <<now, catalog, carts, orders, users, resets, issued, cartMeta>>

\* POST /api/auth/login arrives; validateLogin has trimmed the username
LoginStart(r) ==
  /\ h[r].pc \in {"idle", "done"}
  /\ \E username \in InputUsernames, password \in {Secret, Hunter} :
       h' = [h EXCEPT ![r] = [AuthIdle EXCEPT !.pc = "find", !.route = "login",
                                             !.username = username,
                                             !.password = password]]
  /\ UNCHANGED <<now, catalog, carts, orders, users, resets, issued, cartMeta>>

\* User.findOne({ username: username.toLowerCase(), isActive: true })
FindActive(coll, username) ==
  FindOne({ i \in 1..Len(coll) : coll[i].username = ToLowerCase(username) /\ coll[i].isActive })

\* why findOne returned null: history only
NullCause(coll, username) ==
  IF \E i \in 1..Len(coll) : coll[i].username = ToLowerCase(username)
  THEN "inactive" ELSE "no-user"

\* if (!user) return res.status(400).json({ error: 'Invalid credentials' })
LoginNoUserTold(rec, cause) == AuthRespond(rec, 404, "User not found", cause)

LoginNoUser(rec, cause) == AuthRespond(rec, 400, "Invalid credentials", cause)

\* if (!isValidPassword) return res.status(400).json({ error: 'Invalid credentials' })
LoginWrongPassword(rec) == AuthRespond(rec, 400, "Invalid credentials", "wrong-password")

\* const user = await User.findOne(...); bcrypt.compare follows on the loaded document
LoginFind(r) ==
  /\ h[r].pc = "find" /\ h[r].route = "login"
  /\ LET user == FindActive(users, h[r].username)
     IN  h' = [h EXCEPT ![r] =
                 IF user = 0 THEN LoginNoUser(h[r], NullCause(users, h[r].username))
                 ELSE IF ~Compare(h[r].password, users[user].password)
                      THEN LoginWrongPassword(h[r])
                      ELSE [h[r] EXCEPT !.pc = "save", !.user = user]]
  /\ UNCHANGED <<now, catalog, carts, orders, users, resets, issued, cartMeta>>

\* user.lastLogin = new Date(); await user.save(); jwt.sign; res.json
LoginSave(r) ==
  /\ h[r].pc = "save" /\ h[r].route = "login"
  /\ LET user  == h[r].user
         token == SessionToken(user, users[user].username, now)
     IN  /\ users' = [users EXCEPT ![user].lastLogin = now]
         /\ issued' = issued \cup {token}
         /\ h' = [h EXCEPT ![r] = AuthRespond([h[r] EXCEPT !.token = token], 200,
                                              "Login successful", "logged-in")]
  /\ UNCHANGED <<now, catalog, carts, orders, resets, cartMeta>>

\* a database call of an account route rejects: the outer catch answers 500
AccountDbFail(r) ==
  /\ h[r].pc \in {"find", "save"} /\ h[r].route \in {"register", "login"}
  /\ h' = [h EXCEPT ![r] = AuthRespond(h[r], 500, "Internal server error", "db")]
  /\ UNCHANGED <<now, catalog, carts, orders, users, resets, issued, cartMeta>>

AccountNext ==
  \/ Deactivate
  \/ \E r \in Reqs : RegisterStart(r)
  \/ \E r \in Reqs : RegisterFind(r)
  \/ \E r \in Reqs : RegisterSave(r)
  \/ \E r \in Reqs : RegisterMail(r)
  \/ \E r \in Reqs : LoginStart(r)
  \/ \E r \in Reqs : LoginFind(r)
  \/ \E r \in Reqs : LoginSave(r)
  \/ \E r \in Reqs : AccountDbFail(r)

AccountSpec == AccountInit /\ [][AccountNext]_vars

\* --------------------------------------- POST /api/auth/register (legacy)
\* POST /api/auth/register arrives at the legacy server: no validators
LegacyRegisterStart(r) ==
  /\ h[r].pc \in {"idle", "done"}
  /\ Len(users) < MaxAccounts
  /\ \E username \in InputUsernames, email \in InputEmails :
       h' = [h EXCEPT ![r] = [AuthIdle EXCEPT !.pc = "find", !.route = "register",
                                             !.username = username, !.email = email,
                                             !.password = Secret]]
  /\ UNCHANGED <<now, catalog, carts, orders, users, resets, issued, cartMeta>>

\* const existingUser = await User.findOne({ $or: [{ username }, { email }] })
LegacyRegisterFind(r) ==
  /\ h[r].pc = "find"
  /\ LET existingUser == FindByUsernameOrEmail(users, h[r].username, h[r].email)
     IN  h' = [h EXCEPT ![r] = IF existingUser # 0 THEN ExistingIsRejected(h[r])
                               ELSE [h[r] EXCEPT !.pc = "save"]]
  /\ UNCHANGED <<now, catalog, carts, orders, users, resets, issued, cartMeta>>

\* await user.save(); res.status(201)
LegacyRegisterSave(r) ==
  /\ h[r].pc = "save"
  /\ LET user == LegacyUser(h[r].username, h[r].email, Hash(h[r].password))
     IN  IF UserKeyTaken(users, user)
         THEN /\ h' = [h EXCEPT ![r] = AuthRespond(h[r], 500, "Internal server error",
                                                   "duplicate-key")]
              /\ UNCHANGED users
         ELSE /\ users' = Append(users, user)
              /\ h' = [h EXCEPT ![r] = AuthRespond(h[r], 201, "User registered successfully",
                                                   "created")]
  /\ UNCHANGED <<now, catalog, carts, orders, resets, issued, cartMeta>>

\* findOne or save() rejects: the catch answers 500
LegacyRegisterDbFail(r) ==
  /\ h[r].pc \in {"find", "save"}
  /\ h' = [h EXCEPT ![r] = AuthRespond(h[r], 500, "Internal server error", "db")]
  /\ UNCHANGED <<now, catalog, carts, orders, users, resets, issued, cartMeta>>

LegacyAccountNext ==
  \/ \E r \in Reqs : LegacyRegisterStart(r)
  \/ \E r \in Reqs : LegacyRegisterFind(r)
  \/ \E r \in Reqs : LegacyRegisterSave(r)
  \/ \E r \in Reqs : LegacyRegisterDbFail(r)

LegacyAccountSpec == AccountInit /\ [][LegacyAccountNext]_vars

\* ------------------------------------------------------ authenticateToken
\* ticks of the clock in one hour
Hour == 1

\* expiresIn: '24h' of the session token, '1h' of the reset token
SessionLife == 24 * Hour

ResetLife == 1 * Hour

\* jwt.sign({ email }, JWT_SECRET, { expiresIn: '1h' })
ResetToken(email, iat) == [ kind |-> "reset", email |-> email, iat |-> iat, sig |-> "server" ]

\* no Authorization header, or one without a second word
NoHeader == [ kind |-> "none" ]

\* a token signed with another secret
Forged(token) == [token EXCEPT !.sig = "other"]

Life(token) == IF token.kind = "reset" THEN ResetLife ELSE SessionLife

\* jwt.verify(token, JWT_SECRET) without the check of exp
VerifiesIgnoringExp(token, t) == token.sig = "server"

\* jwt.verify(token, JWT_SECRET): signed with the secret and not expired at t
Verifies(token, t) == token.sig = "server" /\ t < token.iat + Life(token)

\* authenticateToken: the response it sends, or status 0 for next()
AuthenticateToken(header, t) ==
  IF header = NoHeader THEN [status |-> 401, error |-> "Access token required"]
  ELSE IF ~Verifies(header, t) THEN [status |-> 403, error |-> "Invalid token"]
  ELSE [status |-> 0, error |-> "none"]

\* req.user.userId of a verified token: undefined (0) when the payload has none
UserId(token) == IF token.kind = "session" THEN token.userId ELSE 0

\* the routes of the server and whether authenticateToken is registered on them
RouteTable ==
  { [route |-> "POST /api/auth/register", guarded |-> FALSE],
    [route |-> "POST /api/auth/login", guarded |-> FALSE],
    [route |-> "POST /api/auth/forgot-password", guarded |-> FALSE],
    [route |-> "POST /api/auth/reset-password", guarded |-> FALSE],
    [route |-> "GET /api/products", guarded |-> FALSE],
    [route |-> "GET /api/products/:id", guarded |-> FALSE],
    [route |-> "POST /api/cart/add", guarded |-> TRUE],
    [route |-> "GET /api/cart", guarded |-> TRUE],
    [route |-> "PUT /api/cart/update", guarded |-> TRUE],
    [route |-> "DELETE /api/cart/remove/:productId", guarded |-> TRUE],
    [route |-> "POST /api/orders", guarded |-> TRUE],
    [route |-> "GET /api/orders", guarded |-> TRUE],
    [route |-> "GET /api/orders/:id", guarded |-> TRUE],
    [route |-> "GET /api/user/profile", guarded |-> TRUE],
    [route |-> "PUT /api/user/profile", guarded |-> TRUE],
    [route |-> "GET /api/categories", guarded |-> FALSE],
    [route |-> "GET /api/health", guarded |-> FALSE] }

\* the Authorization headers a request can carry: none, a session token of a
\* login (fresh, or older than its life), the same signed with another secret,
\* a reset token
Headers ==
  {NoHeader}
    \cup { SessionToken(u, SeedUser(u).username, iat) : u \in Users, iat \in {1 - SessionLife, 1} }
    \cup { Forged(SessionToken(u, SeedUser(u).username, 1)) : u \in Users }
    \cup { ResetToken(SeedUser(u).email, 1) : u \in Users }

\* a handler slot of the middleware chain with no request; cause is history
GateIdle ==
  [ pc |-> "idle", route |-> "none", header |-> NoHeader, user |-> 0, cause |-> "none",
    status |-> 0, error |-> "none" ]

GateInit ==
  /\ now = 1
  /\ catalog = [p \in ProductIds |-> NoProduct]
  /\ carts = [u \in Users |-> NoCart]
  /\ orders = <<>>
  /\ h = [r \in Reqs |-> GateIdle]
  /\ users = [u \in Users |-> SeedUser(u)]
  /\ resets = <<>>
  /\ issued = {}
  /\ cartMeta = [u \in Users |-> [v |-> 0, docs |-> 0]]

\* a request arrives: express runs the middleware registered on the route, then
\* the route's function
Arrive(r) ==
  /\ h[r].pc \in {"idle", "done"}
  /\ \E entry \in RouteTable, header \in Headers :
       LET checked == AuthenticateToken(header, now)
           req     == [GateIdle EXCEPT !.route = entry.route, !.header = header]
       IN  h' = [h EXCEPT ![r] =
                   IF entry.guarded /\ checked.status # 0
                   THEN [req EXCEPT !.pc = "done", !.status = checked.status,
                                    !.error = checked.error,
                                    !.cause = IF header = NoHeader THEN "missing"
                                              ELSE "invalid"]
                   ELSE IF entry.guarded
                        THEN [req EXCEPT !.pc = "body", !.user = UserId(header)]
                        ELSE [req EXCEPT !.pc = "body"]]
  /\ UNCHANGED <<now, catalog, carts, orders, users, resets, issued, cartMeta>>

\* the route's function answers
RouteAnswers(r) ==
  /\ h[r].pc = "body"
  /\ h' = [h EXCEPT ![r].pc = "done", ![r].cause = "handled"]
  /\ UNCHANGED <<now, catalog, carts, orders, users, resets, issued, cartMeta>>

GateNext ==
  \/ Tick
  \/ \E r \in Reqs : Arrive(r)
  \/ \E r \in Reqs : RouteAnswers(r)

GateSpec == GateInit /\ [][GateNext]_vars

\* ------------------------------- /api/auth/forgot-password, reset-password
\* new PasswordReset({ email, token }) with the default of createdAt
Ticket(email, token, createdAt) == [ email |-> email, token |-> token, createdAt |-> createdAt ]

\* createdAt: { expires: 3600 }
TicketLife == 1 * Hour

\* PasswordReset.findOne({ email, token })
FindTicket(coll, email, token) ==
  FindOne({ i \in 1..Len(coll) : coll[i].email = email /\ coll[i].token = token })

\* PasswordReset.findOne({ email }) as the filter of the upsert sees it
FindTicketOf(coll, email) == FindOne({ i \in 1..Len(coll) : coll[i].email = email })

\* deleteOne: the collection without the document at position i (0: unchanged)
Without(coll, i) ==
  IF i = 0 THEN coll
  ELSE [k \in 1..(Len(coll) - 1) |-> IF k < i THEN coll[k] ELSE coll[k + 1]]

\* one registered account, no request
ResetInit ==
  /\ now = 1
  /\ catalog = [p \in ProductIds |-> NoProduct]
  /\ carts = [u \in Users |-> NoCart]
  /\ orders = <<>>
  /\ h = [r \in Reqs |-> AuthIdle]
  /\ users = << NewUser(<<"a", "n">>, <<"a", "@", "x">>, Hash(Secret)) >>
  /\ resets = <<>>
  /\ issued = {}
  /\ cartMeta = [u \in Users |-> [v |-> 0, docs |-> 0]]

\* POST /api/auth/forgot-password arrives
ForgotStart(r) ==
  /\ h[r].pc \in {"idle", "done"}
  /\ \E email \in InputEmails :
       h' = [h EXCEPT ![r] = [AuthIdle EXCEPT !.pc = "find", !.route = "forgot",
                                             !.email = email]]
  /\ UNCHANGED <<now, catalog, carts, orders, users, resets, issued, cartMeta>>

\* const user = await User.findOne({ email: email.toLowerCase() }); jwt.sign
ForgotFind(r) ==
  /\ h[r].pc = "find" /\ h[r].route = "forgot"
  /\ LET email      == ToLowerCase(h[r].email)
         user       == FindByEmail(users, email)
         resetToken == ResetToken(email, now)
     IN  IF user = 0
         THEN /\ h' = [h EXCEPT ![r] = AuthRespond(h[r], 400,
                                         "User with this email does not exist", "no-user")]
              /\ UNCHANGED issued
         ELSE /\ h' = [h EXCEPT ![r].pc = "upsert", ![r].user = user,
                                ![r].token = resetToken]
              /\ issued' = issued \cup {resetToken}
  /\ UNCHANGED <<now, catalog, carts, orders, users, resets, cartMeta>>

\* await PasswordReset.findOneAndUpdate({ email }, { token }, { upsert: true }):
\* the server looks for a match and updates it; with no match it goes on to insert.
\* passwordResetSchema has no unique index, so nothing serialises two upserts
ForgotUpsert(r) ==
  /\ h[r].pc = "upsert"
  /\ LET found == FindTicketOf(resets, ToLowerCase(h[r].email))
     IN  IF found = 0
         THEN /\ h' = [h EXCEPT ![r].pc = "insert"]
              /\ UNCHANGED resets
         ELSE /\ resets' = [resets EXCEPT ![found].token = h[r].token]
              /\ h' = [h EXCEPT ![r].pc = "mail"]
  /\ UNCHANGED <<now, catalog, carts, orders, users, issued, cartMeta>>

\* the insert of an upsert that found no match
ForgotInsert(r) ==
  /\ h[r].pc = "insert"
  /\ resets' = Append(resets, Ticket(ToLowerCase(h[r].email), h[r].token, now))
  /\ h' = [h EXCEPT ![r].pc = "mail"]
  /\ UNCHANGED <<now, catalog, carts, orders, users, issued, cartMeta>>

\* the mail is sent or fails inside its own try/catch; res.json
ForgotMail(r) ==
  /\ h[r].pc = "mail" /\ h[r].route = "forgot"
  /\ h' = [h EXCEPT ![r] = AuthRespond(h[r], 200, "Password reset link sent to your email",
                                       "sent")]
  /\ UNCHANGED <<now, catalog, carts, orders, users, resets, issued, cartMeta>>

\* the tokens a client can send: one the server has signed, or one signed with
\* another secret
Presentable == issued \cup { Forged(ResetToken(users[i].email, now)) : i \in 1..Len(users) }

\* !newPassword || newPassword.length < 6
PasswordTooShort(newPassword) == newPassword = <<>> \/ Len(newPassword) < MinPassword

\* const { email } = decoded: undefined for a token signed without an email
DecodedEmail(token) == IF token.kind = "reset" THEN token.email ELSE <<>>

\* POST /api/auth/reset-password arrives; the code up to the first await
ResetStart(r) ==
  /\ h[r].pc \in {"idle", "done"}
  /\ \E token \in Presentable, newPassword \in {Hunter, Short} :
       LET req == [AuthIdle EXCEPT !.route = "reset", !.token = token,
                                   !.password = newPassword]
       IN  h' = [h EXCEPT ![r] =
                   IF PasswordTooShort(newPassword)
                   THEN AuthRespond(req, 400, "Password must be at least 6 characters long",
                                    "short")
                   ELSE IF ~Verifies(token, now)
                        THEN AuthRespond(req, 500, "Invalid or expired token", "jwt")
                        ELSE [req EXCEPT !.pc = "find", !.email = DecodedEmail(token)]]
  /\ UNCHANGED <<now, catalog, carts, orders, users, resets, issued, cartMeta>>

\* const resetRecord = await PasswordReset.findOne({ email, token }); bcrypt.hash
ResetFind(r) ==
  /\ h[r].pc = "find" /\ h[r].route = "reset"
  /\ LET resetRecord == FindTicket(resets, h[r].email, h[r].token)
     IN  h' = [h EXCEPT ![r] =
                 IF resetRecord = 0
                 THEN AuthRespond(h[r], 400, "Invalid or expired reset token", "no-ticket")
                 ELSE [h[r] EXCEPT !.pc = "update"]]
  /\ UNCHANGED <<now, catalog, carts, orders, users, resets, issued, cartMeta>>

\* await User.findOneAndUpdate({ email }, { password: hashedPassword, ... })
ResetUpdate(r) ==
  /\ h[r].pc = "update"
  /\ LET user == FindByEmail(users, h[r].email)
     IN  /\ users' = IF user = 0 THEN users
                     ELSE [users EXCEPT ![user].password = Hash(h[r].password)]
         /\ h' = [h EXCEPT ![r].pc = "delete", ![r].changed = user # 0,
                           ![r].held = FindTicket(resets, h[r].email, h[r].token) # 0]
  /\ UNCHANGED <<now, catalog, carts, orders, resets, issued, cartMeta>>

\* await PasswordReset.deleteOne({ email, token }); res.json
ResetDelete(r) ==
  /\ h[r].pc = "delete"
  /\ resets' = Without(resets, FindTicket(resets, h[r].email, h[r].token))
  /\ h' = [h EXCEPT ![r] = AuthRespond(h[r], 200, "Password reset successfully", "reset")]
  /\ UNCHANGED <<now, catalog, carts, orders, users, issued, cartMeta>>

\* a database call of the two routes rejects: the catch of the route answers 500
ResetDbFail(r) ==
  /\ h[r].pc \in {"find", "upsert", "insert", "update", "delete"}
  /\ h[r].route \in {"forgot", "reset"}
  /\ h' = [h EXCEPT ![r] = AuthRespond(h[r], 500,
                             IF h[r].route = "reset" THEN "Invalid or expired token"
                             ELSE "Internal server error", "db")]
  /\ UNCHANGED <<now, catalog, carts, orders, users, resets, issued, cartMeta>>

\* the TTL index on createdAt removes a ticket that has outlived it
TicketExpires ==
  /\ \E i \in 1..Len(resets) :
       /\ resets[i].createdAt + TicketLife <= now
       /\ resets' = Without(resets, i)
  /\ UNCHANGED <<now, catalog, carts, orders, h, users, issued, cartMeta>>

ResetNext ==
  \/ Tick
  \/ TicketExpires
  \/ \E r \in Reqs : ForgotStart(r)
  \/ \E r \in Reqs : ForgotFind(r)
  \/ \E r \in Reqs : ForgotUpsert(r)
  \/ \E r \in Reqs : ForgotInsert(r)
  \/ \E r \in Reqs : ForgotMail(r)
  \/ \E r \in Reqs : ResetStart(r)
  \/ \E r \in Reqs : ResetFind(r)
  \/ \E r \in Reqs : ResetUpdate(r)
  \/ \E r \in Reqs : ResetDelete(r)
  \/ \E r \in Reqs : ResetDbFail(r)

ResetSpec == ResetInit /\ [][ResetNext]_vars

\* ------------------------------------------------ PUT /api/user/profile
MaxKeys == 1

\* the fields of userSchema a body can name
BodyFields == {"password", "username", "email", "isActive"}

\* req.body: the keys at the top level and the keys under "$set"
ProfileBodies ==
  { body \in [top : SUBSET BodyFields, set : SUBSET BodyFields] :
      Cardinality(body.top) + Cardinality(body.set) <= MaxKeys }

\* delete updates.password; delete updates.username; delete updates.email
DeleteSensitive(body) == [body EXCEPT !.top = @ \ {"password", "username", "email"}]

\* the update as the query casts it: the top-level keys join those of $set
SetPaths(updates) == updates.top \cup updates.set

\* the value the body gives for each field
Mallory == <<"m">>
MalloryMail == <<"m", "@", "x">>

\* the document after $set of the paths
AfterSet(user, paths) ==
  [ user EXCEPT !.password = IF "password" \in paths THEN Hash(Hunter) ELSE @,
                !.username = IF "username" \in paths THEN Mallory ELSE @,
                !.email    = IF "email" \in paths THEN MalloryMail ELSE @,
                !.isActive = IF "isActive" \in paths THEN FALSE ELSE @ ]

\* the unique indexes on username and email against the other documents
KeyTakenByOther(coll, u, doc) ==
  \E i \in 1..Len(coll) :
    i # u /\ (coll[i].username = doc.username \/ coll[i].email = doc.email)

\* PUT /api/user/profile arrives with a verified token of user u; the deletes
\* and updatedAt run before the first await
ProfileStart(r) ==
  /\ h[r].pc \in {"idle", "done"}
  /\ \E u \in 1..Len(users), body \in ProfileBodies :
       h' = [h EXCEPT ![r] = [AuthIdle EXCEPT !.pc = "profile", !.route = "profile",
                                             !.user = u,
                                             !.updates = DeleteSensitive(body)]]
  /\ UNCHANGED <<now, catalog, carts, orders, users, resets, issued, cartMeta>>

\* await User.findByIdAndUpdate(userId, updates, { new: true }); res.json
ProfileUpdate(r) ==
  /\ h[r].pc = "profile"
  /\ LET u     == h[r].user
         after == AfterSet(users[u], SetPaths(h[r].updates))
     IN  IF KeyTakenByOther(users, u, after)
         THEN /\ h' = [h EXCEPT ![r] = AuthRespond([h[r] EXCEPT !.token = <<>>], 500,
                                                   "Internal server error", "duplicate-key")]
              /\ UNCHANGED users
         ELSE /\ users' = [users EXCEPT ![u] = after]
              /\ h' = [h EXCEPT ![r] = AuthRespond([h[r] EXCEPT !.token = <<>>], 200,
                                                   "Profile updated successfully", "updated")]
  /\ UNCHANGED <<now, catalog, carts, orders, resets, issued, cartMeta>>

\* findByIdAndUpdate rejects: the catch answers 500
ProfileDbFail(r) ==
  /\ h[r].pc = "profile"
  /\ h' = [h EXCEPT ![r] = AuthRespond([h[r] EXCEPT !.token = <<>>], 500,
                                       "Internal server error", "db")]
  /\ UNCHANGED <<now, catalog, carts, orders, users, resets, issued, cartMeta>>

\* two registered users
ProfileInit ==
  /\ now = 1
  /\ catalog = [p \in ProductIds |-> NoProduct]
  /\ carts = [u \in Users |-> NoCart]
  /\ orders = <<>>
  /\ h = [r \in Reqs |-> AuthIdle]
  /\ users = << NewUser(<<"a", "n">>, <<"a", "@", "x">>, Hash(Secret)),
                NewUser(<<"b", "o">>, <<"b", "@", "x">>, Hash(Secret)) >>
  /\ resets = <<>>
  /\ issued = {}
  /\ cartMeta = [u \in Users |-> [v |-> 0, docs |-> 0]]

ProfileNext ==
  \/ \E r \in Reqs : ProfileStart(r)
  \/ \E r \in Reqs : ProfileUpdate(r)
  \/ \E r \in Reqs : ProfileDbFail(r)

ProfileSpec == ProfileInit /\ [][ProfileNext]_vars

\* ------------------------------------------------ login, reset and profile together
\* the user of the initial state has registered with the password Secret
CredentialNext ==
  \/ \E r \in Reqs : LoginStart(r)
  \/ \E r \in Reqs : LoginFind(r)
  \/ \E r \in Reqs : LoginSave(r)
  \/ \E r \in Reqs : AccountDbFail(r)
  \/ \E r \in Reqs : ForgotStart(r)
  \/ \E r \in Reqs : ForgotFind(r)
  \/ \E r \in Reqs : ForgotUpsert(r)
  \/ \E r \in Reqs : ForgotInsert(r)
  \/ \E r \in Reqs : ForgotMail(r)
  \/ \E r \in Reqs : ResetStart(r)
  \/ \E r \in Reqs : ResetFind(r)
  \/ \E r \in Reqs : ResetUpdate(r)
  \/ \E r \in Reqs : ResetDelete(r)
  \/ \E r \in Reqs : ResetDbFail(r)
  \/ \E r \in Reqs : ProfileStart(r)
  \/ \E r \in Reqs : ProfileUpdate(r)
  \/ \E r \in Reqs : ProfileDbFail(r)

CredentialSpec == ResetInit /\ [][CredentialNext]_vars

\* ------------------------------------------------ /api/cart/add, update, remove
MaxLines == 3
MaxCartQty == 3
MaxVersion == 2
MinQuantity == 1

\* the quantities a cart request carries: negative, zero, positive
CartQuantities == {-1, 0, MaxQty}

\* cart.products.find / findIndex by productId: the first position, 0 for none
LineIndex(lines, productId) ==
  IF \A i \in 1..Len(lines) : lines[i].productId # productId THEN 0
  ELSE CHOOSE i \in 1..Len(lines) :
         /\ lines[i].productId = productId
         /\ \A j \in 1..(i - 1) : lines[j].productId # productId

\* cart.products.splice(productIndex): everything from the position on is removed
SpliceToEnd(lines, i) == SubSeq(lines, 1, i - 1)

\* cart.products.splice(productIndex, 1)
Splice(lines, i) == SubSeq(lines, 1, i - 1) \o SubSeq(lines, i + 1, Len(lines))

\* the handler's document after lines 601-606 of add
AfterAdd(lines, productId, quantity) ==
  LET i == LineIndex(lines, productId)
  IN  IF i # 0 THEN [lines EXCEPT ![i].quantity = @ + quantity]
      ELSE Append(lines, [productId |-> productId, quantity |-> quantity])

\* the handler's document after lines 645-649 of update
AfterUpdate(lines, productId, quantity) ==
  LET i == LineIndex(lines, productId)
  IN  IF quantity <= 0 THEN Splice(lines, i)
      ELSE [lines EXCEPT ![i].quantity = quantity]

\* the filter with its test inverted
AfterRemoveKeepsOnly(lines, productId) ==
  SelectSeq(lines, LAMBDA line : line.productId = productId)

\* cart.products.filter(p => p.productId.toString() !== productId)
AfterRemove(lines, productId) == SelectSeq(lines, LAMBDA line : line.productId # productId)

\* what save() sends for the changes made to the document: the insert of a new
\* document, $push for push, $set of one element's path for an assignment to
\* it, $set of the whole array for splice and for an assignment of a different
\* array, nothing for the array when the assigned one equals the loaded one
Delta(rec) ==
  LET i == LineIndex(rec.cart, rec.productId)
  IN  IF rec.route = "add"
      THEN IF i # 0 THEN "set" ELSE IF rec.isNew THEN "insert" ELSE "push"
      ELSE IF rec.route = "update"
      THEN IF rec.quantity <= 0 THEN "replace" ELSE "set"
      ELSE IF AfterRemove(rec.cart, rec.productId) = rec.cart THEN "none" ELSE "replace"

\* cartSchema without min on quantity
ValidLinesNoMin(lines) == \A i \in 1..Len(lines) : lines[i].quantity \in Int

\* the validators of cartSchema on save: quantity has min: 1
ValidLines(lines) == \A i \in 1..Len(lines) : lines[i].quantity >= MinQuantity

\* a handler slot of the cart routes with no request
CartIdle ==
  [ pc |-> "idle", route |-> "none", user |-> 0, productId |-> 0, quantity |-> 0,
    isNew |-> FALSE, cart |-> <<>>, v |-> 0, status |-> 0, error |-> "none",
    cause |-> "none" ]

\* the response is sent: the document the handler held is gone; the request stays
CartRespond(rec, status, error, cause) ==
  [ CartIdle EXCEPT !.pc = "done", !.route = rec.route, !.user = rec.user,
                    !.productId = rec.productId, !.quantity = rec.quantity,
                    !.status = status, !.error = error, !.cause = cause ]

CartInit ==
  /\ now = 1
  /\ catalog \in { [p \in ProductIds |-> IF p = 1 THEN Product(SeedPrice1, TRUE) ELSE second] :
                     second \in {NoProduct, Product(SeedPrice2, TRUE)} }
  /\ carts \in [Users -> {NoCart, Cart(<<[productId |-> 1, quantity |-> 1]>>)}]
  /\ orders = <<>>
  /\ h = [r \in Reqs |-> CartIdle]
  /\ users = [u \in Users |-> SeedUser(u)]
  /\ resets = <<>>
  /\ issued = {}
  /\ cartMeta = [u \in Users |-> [v |-> 0, docs |-> IF carts[u].exists THEN 1 ELSE 0]]

\* POST /api/cart/add arrives with a verified token of user u
AddStart(r) ==
  /\ h[r].pc \in {"idle", "done"}
  /\ \E u \in Users, productId \in ProductIds, quantity \in CartQuantities :
       /\ Len(carts[u].products) < MaxLines
       /\ cartMeta[u].v < MaxVersion
       /\ \A i \in 1..Len(carts[u].products) : carts[u].products[i].quantity < MaxCartQty
       /\ h' = [h EXCEPT ![r] = [CartIdle EXCEPT !.pc = "product", !.route = "add",
                                                !.user = u, !.productId = productId,
                                                !.quantity = quantity]]
  /\ UNCHANGED <<now, catalog, carts, orders, users, resets, issued, cartMeta>>

\* const product = await Product.findById(productId)
AddProduct(r) ==
  /\ h[r].pc = "product"
  /\ h' = [h EXCEPT ![r] = IF NotFound(catalog[h[r].productId])
                           THEN CartRespond(h[r], 404, "Product not found", "no-product")
                           ELSE [h[r] EXCEPT !.pc = "cart"]]
  /\ UNCHANGED <<now, catalog, carts, orders, users, resets, issued, cartMeta>>

\* let cart = await Cart.findOne({ userId }); if (!cart) cart = new Cart(...)
AddFindCart(r) ==
  /\ h[r].pc = "cart" /\ h[r].route = "add"
  /\ \A i \in 1..Len(carts[h[r].user].products) :
       carts[h[r].user].products[i].quantity < MaxCartQty
  /\ LET cart == carts[h[r].user]
     IN  h' = [h EXCEPT ![r].pc = "save", ![r].isNew = ~cart.exists,
                        ![r].cart = cart.products, ![r].v = cartMeta[h[r].user].v]
  /\ UNCHANGED <<now, catalog, carts, orders, users, resets, issued, cartMeta>>

\* PUT /api/cart/update arrives with a verified token of user u
UpdateStart(r) ==
  /\ h[r].pc \in {"idle", "done"}
  /\ \E u \in Users, productId \in ProductIds, quantity \in CartQuantities :
       /\ cartMeta[u].v < MaxVersion
       /\ h' = [h EXCEPT ![r] = [CartIdle EXCEPT !.pc = "cart", !.route = "update",
                                                !.user = u, !.productId = productId,
                                                !.quantity = quantity]]
  /\ UNCHANGED <<now, catalog, carts, orders, users, resets, issued, cartMeta>>

\* const cart = await Cart.findOne({ userId }); the two 404 branches
UpdateFindCart(r) ==
  /\ h[r].pc = "cart" /\ h[r].route = "update"
  /\ LET cart == carts[h[r].user]
     IN  h' = [h EXCEPT ![r] =
                 IF ~cart.exists THEN CartRespond(h[r], 404, "Cart not found", "no-cart")
                 ELSE IF LineIndex(cart.products, h[r].productId) = 0
                      THEN CartRespond(h[r], 404, "Product not found in cart", "no-line")
                      ELSE [h[r] EXCEPT !.pc = "save", !.cart = cart.products,
                                        !.v = cartMeta[h[r].user].v]]
  /\ UNCHANGED <<now, catalog, carts, orders, users, resets, issued, cartMeta>>

\* DELETE /api/cart/remove/:productId arrives with a verified token of user u
RemoveStart(r) ==
  /\ h[r].pc \in {"idle", "done"}
  /\ \E u \in Users, productId \in ProductIds :
       /\ cartMeta[u].v < MaxVersion
       /\ h' = [h EXCEPT ![r] = [CartIdle EXCEPT !.pc = "cart", !.route = "remove",
                                                !.user = u, !.productId = productId]]
  /\ UNCHANGED <<now, catalog, carts, orders, users, resets, issued, cartMeta>>

\* const cart = await Cart.findOne({ userId }); if (!cart) 404
RemoveFindCart(r) ==
  /\ h[r].pc = "cart" /\ h[r].route = "remove"
  /\ LET cart == carts[h[r].user]
     IN  h' = [h EXCEPT ![r] =
                 IF ~cart.exists THEN CartRespond(h[r], 404, "Cart not found", "no-cart")
                 ELSE [h[r] EXCEPT !.pc = "save", !.cart = cart.products,
                                   !.v = cartMeta[h[r].user].v]]
  /\ UNCHANGED <<now, catalog, carts, orders, users, resets, issued, cartMeta>>

\* await cart.save() of add, update and remove: validation, then the write. cartSchema
\* has no unique index on userId, so the insert of a second cart is accepted;
\* $push increments __v, $set of an element's path requires the __v that was
\* read, $set of the array requires and increments it
CartSave(r) ==
  /\ h[r].pc = "save"
  /\ LET rec    == h[r]
         u      == rec.user
         i      == LineIndex(rec.cart, rec.productId)
         local  == IF rec.route = "add" THEN AfterAdd(rec.cart, rec.productId, rec.quantity)
                   ELSE IF rec.route = "update"
                   THEN AfterUpdate(rec.cart, rec.productId, rec.quantity)
                   ELSE AfterRemove(rec.cart, rec.productId)
         ok     == CartRespond(rec, 200, IF rec.route = "add"
                                         THEN "Product added to cart successfully"
                                         ELSE IF rec.route = "update"
                                         THEN "Cart updated successfully"
                                         ELSE "Product removed from cart successfully",
                               "saved")
     IN  IF ~ValidLines(local)
         THEN /\ h' = [h EXCEPT ![r] =
                         CartRespond(rec, 500, "Internal server error", "validation")]
              /\ UNCHANGED <<carts, cartMeta>>
         ELSE IF Delta(rec) \in {"set", "replace"} /\ cartMeta[u].v # rec.v
         THEN /\ h' = [h EXCEPT ![r] =
                         CartRespond(rec, 500, "Internal server error", "version")]
              /\ UNCHANGED <<carts, cartMeta>>
         ELSE /\ h' = [h EXCEPT ![r] = ok]
              /\ carts' =
                   IF Delta(rec) = "none" THEN carts
                   ELSE IF Delta(rec) = "insert"
                   THEN IF carts[u].exists THEN carts ELSE [carts EXCEPT ![u] = Cart(local)]
                   ELSE IF Delta(rec) = "push"
                   THEN [carts EXCEPT ![u].products = Append(@, local[Len(local)])]
                   ELSE IF Delta(rec) = "set"
                   THEN [carts EXCEPT ![u].products[i].quantity = local[i].quantity]
                   ELSE [carts EXCEPT ![u].products = local]
              /\ cartMeta' =
                   IF Delta(rec) = "insert" THEN [cartMeta EXCEPT ![u].docs = @ + 1]
                   ELSE IF Delta(rec) \in {"set", "none"} THEN cartMeta
                   ELSE [cartMeta EXCEPT ![u].v = @ + 1]
  /\ UNCHANGED <<now, catalog, orders, users, resets, issued>>

\* a database call of a cart route rejects: the catch answers 500
CartDbFail(r) ==
  /\ h[r].pc \in {"product", "cart", "save"}
  /\ h' = [h EXCEPT ![r] = CartRespond(h[r], 500, "Internal server error", "db")]
  /\ UNCHANGED <<now, catalog, carts, orders, users, resets, issued, cartMeta>>

CartNext ==
  \/ \E r \in Reqs : AddStart(r)
  \/ \E r \in Reqs : AddProduct(r)
  \/ \E r \in Reqs : AddFindCart(r)
  \/ \E r \in Reqs : UpdateStart(r)
  \/ \E r \in Reqs : UpdateFindCart(r)
  \/ \E r \in Reqs : RemoveStart(r)
  \/ \E r \in Reqs : RemoveFindCart(r)
  \/ \E r \in Reqs : CartSave(r)
  \/ \E r \in Reqs : CartDbFail(r)

CartSpec == CartInit /\ [][CartNext]_vars

\* ------------------------------------------------ GET /api/orders, /api/orders/:id
MaxStored == 2

\* the users a token can name: those with a cart here, and one more
Callers == 1..(NumUsers + 1)

\* the filter { userId } dropped from the query
OrdersOfAnyone(coll, userId) == SelectSeq(coll, LAMBDA order : order.userId \in Callers)

\* the documents of a collection that match { userId }, in insertion order
OrdersOf(coll, userId) == SelectSeq(coll, LAMBDA order : order.userId = userId)

\* .sort({ orderDate: -1 }): the newest first
NewestFirst(coll) == [ i \in 1..Len(coll) |-> coll[Len(coll) + 1 - i] ]

\* .skip(skip).limit(Number(limit))
Page(coll, skip, limit) ==
  SubSeq(coll, skip + 1, IF skip + limit < Len(coll) THEN skip + limit ELSE Len(coll))

\* .populate('products.productId'): the reference is replaced by the product
Populate(order, products) ==
  [ order EXCEPT !.products =
      [ i \in 1..Len(order.products) |->
          [ order.products[i] EXCEPT !.productId = products[order.products[i].productId] ] ] ]

\* Order.find({ userId }).populate(...).sort(...).skip(skip).limit(limit)
FindOrders(coll, userId, page, limit, products) ==
  LET found == Page(NewestFirst(OrdersOf(coll, userId)), (page - 1) * limit, limit)
  IN  [ i \in 1..Len(found) |-> Populate(found[i], products) ]

\* Order.findOne({ _id: req.params.id, userId }): the position among the
\* caller's orders, 0 for none
FindOrder(coll, id, userId) ==
  LET own == OrdersOf(coll, userId)
  IN  FindOne({ i \in 1..Len(own) : own[i].id = id })

\* Math.ceil(total / limit)
Pages(total, limit) == (total + limit - 1) \div limit

\* a handler slot of the order reads with no request
ReadIdle ==
  [ pc |-> "idle", route |-> "none", caller |-> 0, id |-> 0, page |-> 0, limit |-> 0,
    returned |-> <<>>, total |-> 0, pages |-> 0, status |-> 0, error |-> "none" ]

ReadRespond(rec, status, error) ==
  [ rec EXCEPT !.pc = "done", !.status = status, !.error = error ]

ReadInit ==
  /\ now = 1
  /\ catalog = [p \in ProductIds |-> IF p = 1 THEN Product(SeedPrice1, TRUE) ELSE NoProduct]
  /\ carts = [u \in Users |-> NoCart]
  /\ orders = <<>>
  /\ h = [r \in Reqs |-> ReadIdle]
  /\ users = [u \in Users |-> SeedUser(u)]
  /\ resets = <<>>
  /\ issued = {}
  /\ cartMeta = [u \in Users |-> [v |-> 0, docs |-> 0]]

\* an order of user u is saved by the order route
OrderPlaced ==
  /\ Len(orders) < MaxStored
  /\ \E u \in Callers :
       LET item  == Item(1, 1, SeedPrice1)
           order == NewOrder(u, <<OrderLine(item, catalog[1])>>,
                             WithDelivery(ItemTotal(catalog[1], item)))
           id    == Len(orders) + 1
       IN  orders' = Append(orders, Stored(order, id, OrderNumber(now, Len(orders))))
  /\ UNCHANGED <<now, catalog, carts, h>>
  /\ UNCHANGED accounts

\* GET /api/orders?page&limit arrives with a verified token of user u
ListStart(r) ==
  /\ h[r].pc \in {"idle", "done"}
  /\ \E u \in Callers, page \in {1, 2}, limit \in {1, 10} :
       h' = [h EXCEPT ![r] = [ReadIdle EXCEPT !.pc = "find", !.route = "list",
                                              !.caller = u, !.page = page, !.limit = limit]]
  /\ UNCHANGED <<now, catalog, carts, orders>>
  /\ UNCHANGED accounts

\* const orders = await Order.find({ userId })...
ListFind(r) ==
  /\ h[r].pc = "find" /\ h[r].route = "list"
  /\ h' = [h EXCEPT ![r].pc = "count",
                    ![r].returned = FindOrders(orders, h[r].caller, h[r].page,
                                               h[r].limit, catalog)]
  /\ UNCHANGED <<now, catalog, carts, orders>>
  /\ UNCHANGED accounts

\* const total = await Order.countDocuments({ userId }); res.json(...)
ListCount(r) ==
  /\ h[r].pc = "count" /\ h[r].route = "list"
  /\ LET total == Len(OrdersOf(orders, h[r].caller))
     IN  h' = [h EXCEPT ![r] = ReadRespond([h[r] EXCEPT !.total = total,
                                                       !.pages = Pages(total, h[r].limit)],
                                           200, "none")]
  /\ UNCHANGED <<now, catalog, carts, orders>>
  /\ UNCHANGED accounts

\* GET /api/orders/:id arrives with a verified token of user u
GetStart(r) ==
  /\ h[r].pc \in {"idle", "done"}
  /\ \E u \in Callers, id \in 1..(MaxStored + 1) :
       h' = [h EXCEPT ![r] = [ReadIdle EXCEPT !.pc = "find", !.route = "get",
                                              !.caller = u, !.id = id]]
  /\ UNCHANGED <<now, catalog, carts, orders>>
  /\ UNCHANGED accounts

\* const order = await Order.findOne({ _id, userId }).populate(...); if (!order) 404
GetFind(r) ==
  /\ h[r].pc = "find" /\ h[r].route = "get"
  /\ LET i == FindOrder(orders, h[r].id, h[r].caller)
     IN  h' = [h EXCEPT ![r] =
                 IF i = 0 THEN ReadRespond(h[r], 404, "Order not found")
                 ELSE ReadRespond([h[r] EXCEPT !.returned =
                                     <<Populate(OrdersOf(orders, h[r].caller)[i], catalog)>>],
                                  200, "none")]
  /\ UNCHANGED <<now, catalog, carts, orders>>
  /\ UNCHANGED accounts

\* a query of an order read rejects: the catch answers 500 without a body
ReadDbFail(r) ==
  /\ h[r].pc \in {"find", "count"}
  /\ h' = [h EXCEPT ![r] = ReadRespond([h[r] EXCEPT !.returned = <<>>],
                                       500, "Internal server error")]
  /\ UNCHANGED <<now, catalog, carts, orders>>
  /\ UNCHANGED accounts

ReadNext ==
  \/ OrderPlaced
  \/ \E r \in Reqs : ListStart(r)
  \/ \E r \in Reqs : ListFind(r)
  \/ \E r \in Reqs : ListCount(r)
  \/ \E r \in Reqs : GetStart(r)
  \/ \E r \in Reqs : GetFind(r)
  \/ \E r \in Reqs : ReadDbFail(r)

ReadSpec == ReadInit /\ [][ReadNext]_vars

\* ------------------------------------------------ AuthService (frontend)
\* getToken(): this.token || localStorage.getItem('authToken')
GetToken(browser) == IF browser.token # NoHeader THEN browser.token ELSE browser.stored

\* isAuthenticated(): !!this.getToken()
IsAuthenticated(browser) == GetToken(browser) # NoHeader

\* removeToken(): this.token = null; removeItem('authToken'); removeItem('user')
RemoveToken(browser) == [browser EXCEPT !.token = NoHeader, !.stored = NoHeader, !.user = 0]

\* setToken(token); setCurrentUser(user)
SetToken(browser, token, user) ==
  [browser EXCEPT !.token = token, !.stored = token, !.user = user]

\* the status the server gives a request that carries the header: that of
\* authenticateToken, or the 200 of the route behind it
ServerStatus(header, t) ==
  IF AuthenticateToken(header, t).status # 0 THEN AuthenticateToken(header, t).status ELSE 200

\* a browser: its AuthService instance (token), its localStorage (stored, user),
\* its location, and the call of makeAuthenticatedRequest in progress
Browser(stored) ==
  [ pc |-> "idle", token |-> stored, stored |-> stored,
    user |-> IF stored = NoHeader THEN 0 ELSE 1, location |-> "/",
    header |-> NoHeader, status |-> 0, thrown |-> "none" ]

ClientInit ==
  /\ now = 1
  /\ catalog = [p \in ProductIds |-> NoProduct]
  /\ carts = [u \in Users |-> NoCart]
  /\ orders = <<>>
  /\ h \in [Reqs -> { Browser(stored) : stored \in Headers }]
  /\ users = [u \in Users |-> SeedUser(u)]
  /\ resets = <<>>
  /\ issued = {}
  /\ cartMeta = [u \in Users |-> [v |-> 0, docs |-> 0]]

\* login(username, password) is answered ok: setToken, setCurrentUser
ClientLogin(r) ==
  /\ h[r].pc \in {"idle", "done"}
  /\ \E u \in Users :
       h' = [h EXCEPT ![r] =
               [SetToken(h[r], SessionToken(u, users[u].username, now), u)
                  EXCEPT !.pc = "idle", !.location = "/", !.thrown = "none",
                         !.status = 0, !.header = NoHeader]]
  /\ UNCHANGED <<now, catalog, carts, orders>>
  /\ UNCHANGED accounts

\* a page is loaded: constructor() reads localStorage
PageLoad(r) ==
  /\ h[r].pc \in {"idle", "done"}
  /\ h' = [h EXCEPT ![r] = [h[r] EXCEPT !.pc = "idle", !.token = h[r].stored,
                                        !.thrown = "none", !.status = 0,
                                        !.header = NoHeader]]
  /\ UNCHANGED <<now, catalog, carts, orders>>
  /\ UNCHANGED accounts

\* makeAuthenticatedRequest up to fetch: without a token it throws
MakeRequest(r) ==
  /\ h[r].pc \in {"idle", "done"}
  /\ h' = [h EXCEPT ![r] =
             IF ~IsAuthenticated(h[r])
             THEN [h[r] EXCEPT !.pc = "done", !.header = NoHeader, !.status = 0,
                               !.thrown = "No authentication token found"]
             ELSE [h[r] EXCEPT !.pc = "fetch", !.header = GetToken(h[r]), !.status = 0,
                               !.thrown = "none"]]
  /\ UNCHANGED <<now, catalog, carts, orders>>
  /\ UNCHANGED accounts

\* the response arrives: if (response.status === 401) { removeToken; redirect; throw }
Response(r) ==
  /\ h[r].pc = "fetch"
  /\ LET status == ServerStatus(h[r].header, now)
     IN  h' = [h EXCEPT ![r] =
                 IF status = 401
                 THEN [RemoveToken(h[r]) EXCEPT !.pc = "done", !.status = status,
                                                !.location = "/login.html",
                                                !.thrown = "Authentication expired"]
                 ELSE [h[r] EXCEPT !.pc = "done", !.status = status]]
  /\ UNCHANGED <<now, catalog, carts, orders>>
  /\ UNCHANGED accounts

\* fetch rejects: the error leaves makeAuthenticatedRequest
FetchFails(r) ==
  /\ h[r].pc = "fetch"
  /\ h' = [h EXCEPT ![r] = [h[r] EXCEPT !.pc = "done", !.thrown = "fetch failed"]]
  /\ UNCHANGED <<now, catalog, carts, orders>>
  /\ UNCHANGED accounts

ClientNext ==
  \/ Tick
  \/ \E r \in Reqs : ClientLogin(r)
  \/ \E r \in Reqs : PageLoad(r)
  \/ \E r \in Reqs : MakeRequest(r)
  \/ \E r \in Reqs : Response(r)
  \/ \E r \in Reqs : FetchFails(r)

ClientSpec == ClientInit /\ [][ClientNext]_vars

\* ================================================================ claims
\* the handler r persists its order in this step
Persists(r) == h[r].orderId = 0 /\ h'[r].orderId # 0

\* the handler r clears the cart in this step
Clears(r) == ~h[r].cleared /\ h'[r].cleared

\* sum of price x quantity over what the lookups returned
RECURSIVE SumSeen(_)
SumSeen(seen) ==
  IF seen = <<>> THEN 0
  ELSE Head(seen).price * Head(seen).quantity + SumSeen(Tail(seen))

\* sum of price x quantity over the lines of a stored order
RECURSIVE SumLines(_)
SumLines(lines) ==
  IF lines = <<>> THEN 0
  ELSE Head(lines).price * Head(lines).quantity + SumLines(Tail(lines))

\* C1: the order a handler persists has totalAmount = the sum, over its lines, of the
\* catalog price its lookup returned times the quantity asked for, plus the delivery
\* charge of 3; and every stored order's totalAmount is the sum over its own lines
\* plus its delivery charge.
C1_TotalIsRecomputed ==
  [][ /\ \A r \in Reqs :
           Persists(r) =>
             orders'[h'[r].orderId].totalAmount = SumSeen(h[r].seen) + DeliveryCharge
      /\ \A i \in 1..Len(orders') :
           orders'[i].totalAmount = SumLines(orders'[i].products) + orders'[i].deliveryCharge
    ]_vars

\* an order of two lines is stored, one of whose prices the catalog no longer has
C1_Witness ==
  \E i \in 1..Len(orders) :
    /\ Len(orders[i].products) = 2
    /\ \E k \in 1..2 :
         orders[i].products[k].price # catalog[orders[i].products[k].productId].price

\* C2: a step of the loop that finds the product of its line missing or inactive ends
\* the handler: it has created no order, cleared no cart and sent no mail, and the
\* step leaves the orders and the carts as they were.
C2_InvalidLineAborts ==
  [][ \A r \in Reqs :
        ( /\ h[r].pc = "lookup"
          /\ h'[r] # h[r]
          /\ LET product == catalog[Head(h[r].items).productId]
             IN  ~product.exists \/ ~product.isActive )
        => /\ h'[r].pc = "done"
           /\ h'[r].status \in {400, 500}
           /\ h'[r].orderId = 0
           /\ ~h'[r].cleared
           /\ h'[r].mail = "none"
           /\ orders' = orders
           /\ carts' = carts
    ]_vars

\* a handler has taken a valid line and now stands before a line whose product is
\* missing or inactive, while the cart has its line
C2_Witness ==
  \E r \in Reqs :
    /\ h[r].pc = "lookup"
    /\ Len(h[r].orderProducts) >= 1
    /\ LET product == catalog[Head(h[r].items).productId]
       IN  ~product.exists \/ ~product.isActive
    /\ carts[h[r].user].products # <<>>

\* C3: any two handlers that have assigned an order number hold different numbers.
C3_DistinctOrderNumbers ==
  \A r1, r2 \in Reqs :
    (r1 # r2 /\ h[r1].orderNumber # NoNumber /\ h[r2].orderNumber # NoNumber)
      => h[r1].orderNumber # h[r2].orderNumber

\* C4: each line of the order a handler persists carries the catalog price its
\* lookup returned for that product, whatever price the client put on the line.
C4_LinePriceIsCatalogPrice ==
  [][ \A r \in Reqs :
        Persists(r) =>
          LET lines == orders'[h'[r].orderId].products
          IN  /\ Len(lines) = Len(h[r].seen)
              /\ \A k \in 1..Len(lines) :
                   /\ lines[k].productId = h[r].seen[k].productId
                   /\ lines[k].quantity = h[r].seen[k].quantity
                   /\ lines[k].price = h[r].seen[k].price
    ]_vars

\* an order is stored whose lines carry prices other than the ones the client sent
C4_Witness ==
  \E r \in Reqs :
    /\ h[r].orderId # 0
    /\ h[r].seen # <<>>
    /\ \A k \in 1..Len(h[r].seen) :
         orders[h[r].orderId].products[k].price # h[r].seen[k].sent

\* C5: a handler that has persisted its order answers 201, also when the cart
\* update failed.
C5_CartFailureNotSurfaced ==
  \A r \in Reqs :
    (h[r].pc = "done" /\ h[r].orderId # 0) => h[r].status = 201

\* C6: when the confirmation mail fails the caller gets 201 and the order is stored.
C6_MailFailureSwallowed ==
  \A r \in Reqs :
    h[r].mail = "failed" =>
      /\ h[r].status = 201
      /\ h[r].orderId \in 1..Len(orders)
      /\ orders[h[r].orderId].id = h[r].orderId

\* a handler whose mail failed has answered
C6_Witness ==
  \E r \in Reqs : h[r].pc = "done" /\ h[r].mail = "failed"

\* C7: once the order is persisted and the cart step is done the response is
\* eventually sent, whether or not the mail transport ever answers.
C7_ResponseNotBlockedByMail ==
  \A r \in Reqs : (h[r].pc = "mail") ~> (h[r].pc = "done")

\* C8: a handler that is saving, or has saved, its order has no line left to look
\* up, and a handler that has cleared the cart has its order in the collection.
C8_StepsInOrder ==
  \A r \in Reqs :
    /\ h[r].pc \in {"count", "insert", "clear", "mail"} => h[r].items = <<>>
    /\ h[r].pc \in {"lookup", "count", "insert"} => (h[r].orderId = 0 /\ ~h[r].cleared)
    /\ h[r].cleared => h[r].orderId \in 1..Len(orders)

\* a handler has looked up two lines, saved the order and cleared the cart
C8_Witness ==
  \E r \in Reqs :
    /\ h[r].pc = "mail"
    /\ h[r].cleared
    /\ Len(orders[h[r].orderId].products) = 2

\* C9: the step that clears the cart leaves an existing cart in place with an empty
\* product list and creates none for a user without one; no other step of a handler
\* changes the carts; and a handler that answers 201 has cleared the cart.
C9_CartClearedNotDeleted ==
  [][ \A r \in Reqs :
        /\ Clears(r) =>
             carts' = [carts EXCEPT ![h[r].user] =
                         IF @.exists THEN [exists |-> TRUE, products |-> <<>>] ELSE @]
        /\ (h'[r] # h[r] /\ ~Clears(r)) => carts' = carts
        /\ h'[r].status = 201 => h'[r].cleared
    ]_vars

\* a handler has answered 201 and the cart that had a line exists and is empty
C9_Witness ==
  \E r \in Reqs :
    /\ h[r].status = 201
    /\ \E u \in Users : carts[u].exists /\ carts[u].products = <<>>

\* C10: two stored orders of the same user with the same lines have the same
\* totalAmount, whatever totalAmount their requests carried (the catalog does not
\* change under LegacySpec).
C10_TotalIndependentOfClientTotal ==
  \A i, j \in 1..Len(orders) :
    (orders[i].userId = orders[j].userId /\ orders[i].products = orders[j].products)
      => orders[i].totalAmount = orders[j].totalAmount

\* no two stored users have usernames or emails that are equal ignoring case
NoCaseDuplicates ==
  \A i, j \in 1..Len(users) :
    i # j => /\ ToLowerCase(users[i].username) # ToLowerCase(users[j].username)
             /\ ToLowerCase(users[i].email) # ToLowerCase(users[j].email)

\* a registration that met an existing username or email was answered 400
DuplicateAnswered400 ==
  \A r \in Reqs :
    (h[r].route = "register" /\ h[r].cause \in {"exists", "duplicate-key"})
      => h[r].status = 400

\* C11: after any interleaving of registrations no two stored users have
\* usernames or emails equal ignoring case, and a registration that matches an
\* existing user ignoring case is rejected with 400 and creates no user
C11_RegistrationUniqueIgnoringCase == NoCaseDuplicates /\ DuplicateAnswered400

\* C11 on the enhanced server alone: the race of two registrations
C11_EnhancedDuplicateIs400 == DuplicateAnswered400

\* C12: a login with a wrong password and a login with an unknown or deactivated
\* username get the same status and the same error payload, and a login that
\* fails writes nothing
C12_LoginFailuresIndistinguishable ==
  [][ /\ \A r, q \in Reqs :
           ( /\ h'[r].route = "login" /\ h'[r].cause = "wrong-password"
             /\ h'[q].route = "login" /\ h'[q].cause \in {"no-user", "inactive"} )
           => (h'[r].status = h'[q].status /\ h'[r].error = h'[q].error)
      /\ \A r \in Reqs :
           ( /\ h[r].route = "login" /\ h[r].pc = "find" /\ h'[r].pc = "done" )
           => UNCHANGED <<users, resets, issued, carts, orders, catalog, cartMeta>> ]_vars

\* both kinds of failed login have been answered, one of them for a
\* deactivated account
C12_Witness ==
  \E r, q \in Reqs :
    /\ h[r].route = "login" /\ h[r].cause = "wrong-password" /\ h[r].pc = "done"
    /\ h[q].route = "login" /\ h[q].cause = "inactive" /\ h[q].pc = "done"

\* the routes the claim names
NamedRoutes ==
  { "POST /api/cart/add", "GET /api/cart", "PUT /api/cart/update",
    "DELETE /api/cart/remove/:productId", "POST /api/orders", "GET /api/orders",
    "GET /api/orders/:id", "GET /api/user/profile", "PUT /api/user/profile" }

\* signed with the server's secret and younger than its life
SignedAndUnexpired(token, t) ==
  token # NoHeader /\ token.sig = "server" /\ t - token.iat < Life(token)

\* C13: the function of a protected route runs only for a request whose token
\* verifies (signed with the secret, not expired); any other request is answered
\* by authenticateToken and nothing stored changes
C13_BodyOnlyWithValidToken ==
  [][ \A r \in Reqs :
        (h'[r] # h[r] /\ h[r].pc \in {"idle", "done"} /\ h'[r].route \in NamedRoutes)
          => /\ h'[r].pc = "body" <=> SignedAndUnexpired(h'[r].header, now)
             /\ h'[r].pc # "body" => /\ h'[r].pc = "done"
                                     /\ h'[r].status \in {401, 403}
                                     /\ UNCHANGED <<catalog, carts, orders, users, resets,
                                                    issued, cartMeta>> ]_vars

\* an expired token and a forged token have both been turned away from a
\* protected route while another request with a valid token is in its body
C13_Witness ==
  \E r, q \in Reqs :
    /\ h[r].route = "PUT /api/user/profile" /\ h[r].pc = "done" /\ h[r].cause = "invalid"
    /\ h[r].header.sig = "server"
    /\ h[q].route = "POST /api/cart/add" /\ h[q].pc = "body" /\ h[q].user # 0

\* C14: a request without a token and a request with an expired or wrongly
\* signed token get the same status and the same message
C14_GateFailuresUniform ==
  \A r, q \in Reqs :
    (h[r].cause = "missing" /\ h[q].cause = "invalid")
      => (h[r].status = h[q].status /\ h[r].error = h[q].error)

\* C15: at most one reset ticket is stored per email, it holds a token issued
\* for that email, and no ticket is stored for an email without a user
C15_OneTicketPerEmail ==
  /\ \A i, j \in 1..Len(resets) : resets[i].email = resets[j].email => i = j
  /\ \A i \in 1..Len(resets) :
       /\ resets[i].token \in issued /\ resets[i].token.email = resets[i].email
       /\ \E k \in 1..Len(users) : users[k].email = resets[i].email

\* C16: no two reset-password requests carrying the same token both replace
\* the password
C16_TicketSingleUse ==
  \A r, q \in Reqs :
    (r # q /\ h[r].route = "reset" /\ h[q].route = "reset" /\ h[r].token = h[q].token)
      => ~(h[r].changed /\ h[q].changed)

\* C17: a reset-password request replaces the password hash only while a
\* ticket with its (email, token) pair is stored, and a request that is
\* rejected replaces nothing
C17_ReplaceOnlyWithStoredTicket ==
  \A r \in Reqs :
    h[r].route = "reset"
      => /\ h[r].changed => h[r].held
         /\ h[r].cause \in {"short", "jwt", "no-ticket"} => ~h[r].changed

\* C18: in every reachable state a cart has at most one line per product
C18_OneLinePerProduct ==
  \A u \in Users :
    \A i, j \in 1..Len(carts[u].products) :
      carts[u].products[i].productId = carts[u].products[j].productId => i = j

\* C19: at most one cart document exists for each user
C19_OneCartPerUser == \A u \in Users : cartMeta[u].docs <= 1

\* what the claim asks of an update of product p to quantity q
UpdatedLines(lines, p, q) ==
  LET i == LineIndex(lines, p)
  IN  IF q > 0
      THEN [k \in 1..Len(lines) |-> IF k = i THEN [productId |-> p, quantity |-> q]
                                    ELSE lines[k]]
      ELSE [k \in 1..(Len(lines) - 1) |-> IF k < i THEN lines[k] ELSE lines[k + 1]]

\* the update request r is answered 200 by this step
UpdateSaved(r) ==
  h[r].route = "update" /\ h[r].pc = "save" /\ h'[r].pc = "done" /\ h'[r].status = 200

\* C20, amended: an update of a product in the caller's cart that is saved sets
\* the quantity of that line when it is positive and removes the line when it
\* is zero or negative, and leaves every other line as it was, provided the
\* cart was not written between the handler's read and its save
C20_UpdateSetsOrRemoves ==
  [][ \A r \in Reqs :
        (UpdateSaved(r) /\ carts[h[r].user].products = h[r].cart)
          => carts'[h[r].user].products =
               UpdatedLines(carts[h[r].user].products, h[r].productId, h[r].quantity) ]_vars

\* C20 as stated: an update that is saved sets or removes its line and leaves
\* every other line of the stored cart unchanged
C20_UpdateAgainstStored ==
  [][ \A r \in Reqs :
        UpdateSaved(r)
          => carts'[h[r].user].products =
               UpdatedLines(carts[h[r].user].products, h[r].productId, h[r].quantity) ]_vars

\* an update to quantity 0 has removed its line and another line is still there
C20_Witness ==
  \E r \in Reqs :
    /\ h[r].route = "update" /\ h[r].pc = "done" /\ h[r].status = 200
    /\ h[r].quantity = 0
    /\ LineIndex(carts[h[r].user].products, h[r].productId) = 0
    /\ Len(carts[h[r].user].products) >= 1

\* C21: every stored cart line has quantity >= 1, whatever quantity (zero and
\* negative ones included) add-to-cart and update-cart were sent
C21_StoredQuantityAtLeastOne ==
  \A u \in Users : \A i \in 1..Len(carts[u].products) :
    carts[u].products[i].quantity >= 1

\* an add or update with a quantity below 1 was refused by the validators, and
\* one with a negative quantity was saved because the sum stayed at 1 or more
C21_Witness ==
  /\ \E r \in Reqs : /\ h[r].pc = "done" /\ h[r].cause = "validation"
                      /\ h[r].quantity < 1 /\ h[r].route = "add"
  /\ \E r \in Reqs : /\ h[r].pc = "done" /\ h[r].cause = "saved"
                      /\ h[r].quantity < 0 /\ h[r].route = "add"

\* the lines of a cart in their order, those of product p left out
LinesWithout(lines, p) ==
  LET keep(line) == line.productId # p IN SelectSeq(lines, keep)

\* the handler r of a remove saves its cart in this step and answers 200
RemoveSaved(r) ==
  /\ h[r].pc = "save" /\ h[r].route = "remove"
  /\ h'[r].pc = "done" /\ h'[r].status = 200

\* C25, amended: a remove that is saved deletes the line of its product and
\* leaves every other line as it was, and a remove of a product that is not in
\* the cart leaves the lines as they were, so that a second remove of the same
\* product changes nothing, provided the cart was not written between the
\* handler's read and its save
C25_RemoveDeletesOnlyItsLine ==
  [][ \A r \in Reqs :
        (RemoveSaved(r) /\ carts[h[r].user].products = h[r].cart)
          => /\ carts'[h[r].user].products =
                  LinesWithout(carts[h[r].user].products, h[r].productId)
             /\ LinesWithout(carts'[h[r].user].products, h[r].productId) =
                  carts'[h[r].user].products ]_vars

\* C25 as stated: a remove that is saved deletes the line of its product from
\* the stored cart and leaves every other line of it unchanged
C25_RemoveAgainstStored ==
  [][ \A r \in Reqs :
        RemoveSaved(r)
          => carts'[h[r].user].products =
               LinesWithout(carts[h[r].user].products, h[r].productId) ]_vars

\* a remove has been saved, its product is not in the cart and another line is
\* still there
C25_Witness ==
  \E r \in Reqs :
    /\ h[r].route = "remove" /\ h[r].pc = "done" /\ h[r].status = 200
    /\ LineIndex(carts[h[r].user].products, h[r].productId) = 0
    /\ Len(carts[h[r].user].products) >= 1

\* C22: a placeOrder request that names a product which is missing or inactive
\* is answered 404 and changes neither the orders nor the carts
C22_MissingProductIs404 ==
  [][ \A r \in Reqs :
        ( /\ h[r].pc = "lookup"
          /\ NotFound(catalog[Head(h[r].items).productId])
          /\ h'[r].pc = "done" /\ h'[r].status # 500 )
          => /\ h'[r].status = 404
             /\ orders' = orders /\ carts' = carts ]_vars

\* C23: what GET /api/orders and GET /api/orders/:id hold or have returned is
\* made of orders whose owner is the caller, and a single-order request for an
\* order that exists and belongs to another user is answered 404 with no order
C23_OnlyOwnOrdersReturned ==
  \A r \in Reqs :
    /\ \A i \in 1..Len(h[r].returned) : h[r].returned[i].userId = h[r].caller
    /\ ( /\ h[r].route = "get" /\ h[r].pc = "done" /\ h[r].status # 500
         /\ \E i \in 1..Len(orders) :
              orders[i].id = h[r].id /\ orders[i].userId # h[r].caller )
         => (h[r].status = 404 /\ h[r].returned = <<>>)

\* with orders of two users stored, a list has returned an order and a
\* single-order request for another user's order has been answered 404
C23_Witness ==
  /\ \E i, j \in 1..Len(orders) : orders[i].userId # orders[j].userId
  /\ \E r \in Reqs : /\ h[r].route = "list" /\ h[r].pc = "done"
                     /\ Len(h[r].returned) >= 1
  /\ \E r \in Reqs : /\ h[r].route = "get" /\ h[r].status = 404
                     /\ \E i \in 1..Len(orders) :
                          orders[i].id = h[r].id /\ orders[i].userId # h[r].caller

\* C24: a profile update leaves the caller's password hash, username and email
\* as they were, whatever the body holds, and leaves every other user's record
\* as it was
C24_ProfileLeavesCredentials ==
  [][ \A r \in Reqs :
        (h[r].pc = "profile" /\ h'[r].pc = "done")
          => \A i \in 1..Len(users) :
               IF i = h[r].user
               THEN /\ users'[i].password = users[i].password
                    /\ users'[i].username = users[i].username
                    /\ users'[i].email = users[i].email
               ELSE users'[i] = users[i] ]_vars

\* C27: a stored password hash is replaced only by a reset-password request,
\* and a login whose query returns is let in exactly when its username is that
\* of a stored active user and its password is the one the stored hash was made
\* of, so that the password set last by registration or reset is the one that
\* logs in
C27_LoginFollowsLastSetPassword ==
  [][ /\ \A i \in 1..Len(users) :
           users'[i].password # users[i].password
             => \E r \in Reqs : /\ h[r].route = "reset" /\ h[r].pc = "update"
                                /\ h'[r].pc = "delete"
      /\ \A r \in Reqs :
           ( /\ h[r].route = "login" /\ h[r].pc = "find"
             /\ h'[r].pc \in {"save", "done"} /\ h'[r].cause # "db" )
             => ( h'[r].pc = "save"
                    <=> \E i \in 1..Len(users) :
                          /\ users[i].username = ToLowerCase(h[r].username)
                          /\ users[i].isActive
                          /\ Compare(h[r].password, users[i].password) ) ]_vars

\* C28: when the server rejects the token a request of the AuthService carried,
\* the stored token and user are removed and the browser is sent to the login
\* page, so that isAuthenticated() is false afterwards; and a call without a
\* stored token throws without a request being sent
C28_ClientFollowsServer ==
  [][ \A r \in Reqs :
        /\ ( /\ h[r].pc = "fetch" /\ h'[r].pc = "done"
             /\ h'[r].status \in {401, 403} )
             => /\ ~IsAuthenticated(h'[r])
                /\ h'[r].stored = NoHeader /\ h'[r].user = 0
                /\ h'[r].location = "/login.html"
        /\ ( /\ h[r].pc \in {"idle", "done"} /\ ~IsAuthenticated(h[r])
             /\ h'[r] # h[r] /\ h'[r].thrown # "none" )
             => h'[r].pc = "done" /\ h'[r].header = NoHeader ]_vars

\* C26: an order that is stored keeps its line items and its totalAmount: no
\* step, be it a catalog price change, a cart write or another order being
\* placed, changes or removes a stored order
C26_StoredOrdersNeverChange ==
  [][ /\ Len(orders') >= Len(orders)
      /\ \A i \in 1..Len(orders) : orders'[i] = orders[i] ]_vars

\* a second order has been placed and a cart cleared after the first, and the
\* catalog price of product 1 is no longer the one the first order holds
C26_Witness ==
  /\ Len(orders) = 2
  /\ \E i \in 1..Len(orders[1].products) :
       /\ orders[1].products[i].productId = 1
       /\ orders[1].products[i].price # catalog[1].price
  /\ \E r \in Reqs : h[r].cleared /\ h[r].orderId = 2

====
